---- MODULE Spec2Model ----
(***************************************************************************)
(* Dataset-Management-Toolkit: the YOLO label remapper (src/Remap.py) and  *)
(* the sequential image renamer (src/rename.py).                           *)
(*                                                                         *)
(* Text is modelled as Python handles it: a str is a sequence of           *)
(* one-character strings, so splitting, joining, integer parsing, decimal  *)
(* formatting, zero filling and suffix extraction are computed, not        *)
(* assumed.  A file system is a function from paths to nodes.              *)
(***************************************************************************)
EXTENDS Integers, Sequences, FiniteSets, TLC

VARIABLES
    fs,       \* remapper: the file tree, path -> node
    phase,    \* remapper: which runs of remap_by_name have happened
    first,    \* remapper: record of the first run of remap_by_name
    last,     \* remapper: record of the most recent run of remap_by_name
    dir,      \* renamer: the directory, entry name -> [kind, id]
    origDir,  \* renamer: the directory as it was first found
    rn,       \* renamer: the run of rename_images in progress (its locals)
    dryRec,   \* renamer: report of the last completed dry run
    realRec,  \* renamer: report of the last completed real run
    gui       \* remap GUI: widgets and worker threads of MinimalApp

vars == <<fs, phase, first, last, dir, origDir, rn, dryRec, realRec, gui>>
remapVars == <<fs, phase, first, last>>
renameVars == <<dir, origDir, rn, dryRec, realRec>>

(***************************************************************************)
(* Bounds of the model.                                                    *)
(***************************************************************************)
MaxClasses == 2     \* longest class list drawn
MaxLines == 2       \* longest label file built from CoreLines
MaxFiles == 2       \* most entries in the renamer's directory
MaxWorkers == 2     \* most remap worker threads alive at once

(***************************************************************************)
(* Python str primitives.                                                  *)
(***************************************************************************)
\* The characters of the model in code point order.
Chars == <<"\t", "\n", " ", "+", "-", ".",
           "0", "1", "2", "3", "4", "5", "6", "7", "8", "9",
           "A", "B", "C", "D", "E", "F", "G", "H", "I", "J", "K", "L", "M",
           "N", "O", "P", "Q", "R", "S", "T", "U", "V", "W", "X", "Y", "Z",
           "_",
           "a", "b", "c", "d", "e", "f", "g", "h", "i", "j", "k", "l", "m",
           "n", "o", "p", "q", "r", "s", "t", "u", "v", "w", "x", "y", "z">>

Ord(c) == CHOOSE i \in 1..Len(Chars) : Chars[i] = c

Digits == <<"0", "1", "2", "3", "4", "5", "6", "7", "8", "9">>
IsDigit(c) == \E i \in 1..Len(Digits) : Digits[i] = c
DigitVal(c) == (CHOOSE i \in 1..Len(Digits) : Digits[i] = c) - 1

UpperCase == <<"A", "B", "C", "D", "E", "F", "G", "H", "I", "J", "K", "L", "M",
               "N", "O", "P", "Q", "R", "S", "T", "U", "V", "W", "X", "Y", "Z">>
LowerCase == <<"a", "b", "c", "d", "e", "f", "g", "h", "i", "j", "k", "l", "m",
               "n", "o", "p", "q", "r", "s", "t", "u", "v", "w", "x", "y", "z">>

\* str.lower()
LowerChar(c) ==
    IF \E i \in 1..Len(UpperCase) : UpperCase[i] = c
    THEN LowerCase[CHOOSE i \in 1..Len(UpperCase) : UpperCase[i] = c]
    ELSE c
Lower(s) == [i \in 1..Len(s) |-> LowerChar(s[i])]

\* str < str: code point order, a proper prefix first.
RECURSIVE LexLess(_, _)
LexLess(a, b) ==
    IF a = <<>> THEN b # <<>>
    ELSE IF b = <<>> THEN FALSE
    ELSE IF a[1] # b[1] THEN Ord(a[1]) < Ord(b[1])
    ELSE LexLess(Tail(a), Tail(b))

\* sorted(S) / list.sort()
RECURSIVE Sorted(_)
Sorted(S) ==
    IF S = {} THEN <<>>
    ELSE LET m == CHOOSE x \in S : \A y \in S \ {x} : LexLess(x, y)
         IN <<m>> \o Sorted(S \ {m})

\* Characters str.split() and str.strip() treat as whitespace.
Whitespace == {" ", "\t", "\n"}

\* not ln.strip()
IsBlank(ln) == \A i \in 1..Len(ln) : ln[i] \in Whitespace

\* str.split(): the maximal runs of non-whitespace characters.
RECURSIVE SplitFrom(_, _, _, _)
SplitFrom(s, i, cur, acc) ==
    IF i > Len(s) THEN (IF cur = <<>> THEN acc ELSE Append(acc, cur))
    ELSE IF s[i] \in Whitespace
         THEN SplitFrom(s, i + 1, <<>>, IF cur = <<>> THEN acc ELSE Append(acc, cur))
         ELSE SplitFrom(s, i + 1, Append(cur, s[i]), acc)
Split(s) == SplitFrom(s, 1, <<>>, <<>>)

\* str.splitlines(): pieces between "\n", no empty piece after a final "\n".
RECURSIVE SplitLinesFrom(_, _, _, _)
SplitLinesFrom(s, i, cur, acc) ==
    IF i > Len(s) THEN (IF cur = <<>> THEN acc ELSE Append(acc, cur))
    ELSE IF s[i] = "\n"
         THEN SplitLinesFrom(s, i + 1, <<>>, Append(acc, cur))
         ELSE SplitLinesFrom(s, i + 1, Append(cur, s[i]), acc)
SplitLines(s) == SplitLinesFrom(s, 1, <<>>, <<>>)

\* sep.join(parts)
RECURSIVE Join(_, _)
Join(parts, sep) ==
    IF parts = <<>> THEN <<>>
    ELSE IF Len(parts) = 1 THEN parts[1]
    ELSE parts[1] \o sep \o Join(Tail(parts), sep)

\* str(n) for n >= 0
RECURSIVE Str(_)
Str(n) == IF n < 10 THEN <<Digits[n + 1]>> ELSE Str(n \div 10) \o <<Digits[(n % 10) + 1]>>

\* s.zfill(width) for a string of digits
RECURSIVE ZFill(_, _)
ZFill(s, width) == IF Len(s) >= width THEN s ELSE ZFill(<<"0">> \o s, width)

\* The decimal value of a string of digits and single underscores.
RECURSIVE DecimalValue(_, _)
DecimalValue(s, acc) ==
    IF s = <<>> THEN acc
    ELSE IF s[1] = "_" THEN DecimalValue(Tail(s), acc)
    ELSE DecimalValue(Tail(s), 10 * acc + DigitVal(s[1]))

\* int(tok) of a token without whitespace: an optional sign, then digits that
\* single underscores may separate.  ok = FALSE is ValueError.
ParseInt(tok) ==
    LET signed == tok # <<>> /\ tok[1] \in {"+", "-"}
        body == IF signed THEN Tail(tok) ELSE tok
        wellFormed ==
            /\ body # <<>>
            /\ \A i \in 1..Len(body) : IsDigit(body[i]) \/ body[i] = "_"
            /\ IsDigit(body[1]) /\ IsDigit(body[Len(body)])
            /\ \A i \in 1..(Len(body) - 1) : ~(body[i] = "_" /\ body[i + 1] = "_")
    IN IF ~wellFormed THEN [ok |-> FALSE, val |-> 0]
       ELSE [ok |-> TRUE,
             val |-> IF signed /\ tok[1] = "-" THEN 0 - DecimalValue(body, 0)
                     ELSE DecimalValue(body, 0)]

\* Path(name).suffix: from the last dot, unless that dot leads or ends the name.
RECURSIVE LastDot(_, _)
LastDot(name, i) == IF i = 0 THEN 0 ELSE IF name[i] = "." THEN i ELSE LastDot(name, i - 1)
Suffix(name) ==
    LET k == LastDot(name, Len(name))
    IN IF k <= 1 \/ k = Len(name) THEN <<>> ELSE SubSeq(name, k, Len(name))

(***************************************************************************)
(* The file tree.  A path is a sequence of names, <<>> the working         *)
(* directory; a node is a directory or a file with its text.               *)
(***************************************************************************)
DirNode == [kind |-> "dir", data |-> <<>>]
FileNode(text) == [kind |-> "file", data |-> text]

Exists(f, p) == p \in DOMAIN f
IsDir(f, p) == p \in DOMAIN f /\ f[p].kind = "dir"
IsFile(f, p) == p \in DOMAIN f /\ f[p].kind = "file"
IsPrefix(d, p) == Len(d) <= Len(p) /\ SubSeq(p, 1, Len(d)) = d
Parent(p) == SubSeq(p, 1, Len(p) - 1)
BaseName(p) == p[Len(p)]
\* Path.iterdir(): the direct children
Children(f, d) == {p \in DOMAIN f : Len(p) = Len(d) + 1 /\ IsPrefix(d, p)}

Put(f, p, node) == [q \in DOMAIN f \cup {p} |-> IF q = p THEN node ELSE f[q]]

\* Path.write_text
WriteText(f, p, text) == Put(f, p, FileNode(text))

\* Path.mkdir(parents=True, exist_ok=True); ok = FALSE is FileExistsError or
\* NotADirectoryError (the path or an ancestor is a file).
Mkdir(f, d) ==
    LET chain == {SubSeq(d, 1, k) : k \in 1..Len(d)}
    IN IF \E p \in chain : IsFile(f, p) THEN [ok |-> FALSE, fs |-> f]
       ELSE [ok |-> TRUE,
             fs |-> [q \in DOMAIN f \cup chain |-> IF q \in DOMAIN f THEN f[q] ELSE DirNode]]

\* shutil.copytree(src, dst), dst absent
CopyTree(f, src, dst) ==
    LET moved(p) == dst \o SubSeq(p, Len(src) + 1, Len(p))
        srcs == {p \in DOMAIN f : IsPrefix(src, p)}
        origin(q) == CHOOSE p \in srcs : moved(p) = q
    IN [q \in DOMAIN f \cup {moved(p) : p \in srcs} |->
           IF q \in DOMAIN f THEN f[q] ELSE f[origin(q)]]

(***************************************************************************)
(* src/Remap.py                                                            *)
(***************************************************************************)
NL == <<"\n">>
SP == <<" ">>
TxtSuffix == <<".", "t", "x", "t">>
BackupSuffix == <<"_", "b", "a", "c", "k", "u", "p">>
ClassesMapped == <<"c", "l", "a", "s", "s", "e", "s", "_", "m", "a", "p", "p", "e", "d",
                   ".", "t", "x", "t">>

\* read_classes on a file's text: its lines without the newline, empty ones dropped
ReadClasses(text) == SelectSeq(SplitLines(text), LAMBDA ln : ln # <<>>)

\* {name: idx for idx, name in enumerate(new)}: a later entry overwrites an earlier one
RECURSIVE NameToNewFromOne(_)
NameToNewFromOne(new) ==
    IF new = <<>> THEN <<>>
    ELSE (new[Len(new)] :> Len(new))
             @@ NameToNewFromOne(SubSeq(new, 1, Len(new) - 1))

RECURSIVE NameToNewFirstWins(_)
NameToNewFirstWins(new) ==
    IF new = <<>> THEN <<>>
    ELSE NameToNewFirstWins(SubSeq(new, 1, Len(new) - 1))
             @@ (new[Len(new)] :> (Len(new) - 1))

RECURSIVE NameToNew(_)
NameToNew(new) ==
    IF new = <<>> THEN <<>>
    ELSE (new[Len(new)] :> (Len(new) - 1))
             @@ NameToNew(SubSeq(new, 1, Len(new) - 1))

\* {i: n for i, n in enumerate(old)}.get(idx); ok = FALSE is None
OldIndexToNameFromOne(old, idx) ==
    IF idx \in 1..Len(old) THEN [ok |-> TRUE, name |-> old[idx]]
    ELSE [ok |-> FALSE, name |-> <<>>]
OldIndexToName(old, idx) ==
    IF idx \in 0..(Len(old) - 1) THEN [ok |-> TRUE, name |-> old[idx + 1]]
    ELSE [ok |-> FALSE, name |-> <<>>]

\* ' '.join([str(new_idx)] + parts[1:])
NewLine(new_idx, parts) == Join(<<Str(new_idx)>> \o Tail(parts), SP)

\* The loop body for one non-blank line, from the parsed index on: what is
\* appended to out_lines and whether stats['changed'] (rather than
\* stats['unchanged']) is counted.
Kept(ln) == [out |-> ln, changed |-> FALSE]
Rewritten(ln, new_line) == [out |-> new_line, changed |-> new_line # ln]
RemapName(ln, parts, old_name, name_to_new) ==
    IF ~old_name.ok THEN Kept(ln)
    ELSE IF old_name.name \notin DOMAIN name_to_new THEN Kept(ln)
    ELSE Rewritten(ln, NewLine(name_to_new[old_name.name], parts))
RemapIndex(ln, parts, old_idx, old, name_to_new) ==
    IF ~old_idx.ok THEN Kept(ln)
    ELSE RemapName(ln, parts, OldIndexToName(old, old_idx.val), name_to_new)
RemapParts(ln, parts, old, name_to_new) ==
    IF Len(parts) < 5 THEN Kept(ln)
    ELSE RemapIndex(ln, parts, ParseInt(parts[1]), old, name_to_new)
RemapLine(ln, old, name_to_new) == RemapParts(ln, Split(ln), old, name_to_new)

\* The counters and out_lines after one more non-blank line.
CountLine(acc, r) ==
    [out_lines |-> Append(acc.out_lines, r.out),
     flags |-> Append(acc.flags, r.changed),
     lines |-> acc.lines + 1,
     changed |-> acc.changed + (IF r.changed THEN 1 ELSE 0),
     unchanged |-> acc.unchanged + (IF r.changed THEN 0 ELSE 1)]

\* The loop over content.splitlines() of one label file; blank lines are skipped.
RECURSIVE RemapLines(_, _, _, _)
RemapLines(lines, old, name_to_new, acc) ==
    IF lines = <<>> THEN acc
    ELSE IF IsBlank(Head(lines)) THEN RemapLines(Tail(lines), old, name_to_new, acc)
    ELSE RemapLines(Tail(lines), old, name_to_new,
                    CountLine(acc, RemapLine(Head(lines), old, name_to_new)))

RemapText(text, old, name_to_new) ==
    RemapLines(SplitLines(text), old, name_to_new,
               [out_lines |-> <<>>, flags |-> <<>>, lines |-> 0, changed |-> 0, unchanged |-> 0])

\* '\n'.join(out_lines) + ('\n' if out_lines else '')
OutText(out_lines) == IF out_lines = <<>> THEN <<>> ELSE Join(out_lines, NL) \o NL

\* f.is_file() and f.suffix.lower() == '.txt', for the entries of labels_dir
LabelFiles(f, labels_dir) ==
    {p \in Children(f, labels_dir) : IsFile(f, p) /\ Lower(Suffix(BaseName(p))) = TxtSuffix}

\* Where the label file f is written: out_dir / f.name
OutPathSame(out_dir, p) == p
OutPath(out_dir, p) == out_dir \o <<BaseName(p)>>

\* One label file read, remapped (r) and written; the counters added up.
WriteFile(acc, p, out_dir, r) ==
    [fs |-> WriteText(acc.fs, OutPath(out_dir, p), OutText(r.out_lines)),
     emitted |-> (BaseName(p) :> [out_lines |-> r.out_lines, flags |-> r.flags])
                     @@ acc.emitted,
     stats |-> [files |-> acc.stats.files + 1,
                lines |-> acc.stats.lines + r.lines,
                changed |-> acc.stats.changed + r.changed,
                unchanged |-> acc.stats.unchanged + r.unchanged]]

\* for f in sorted(labels_dir.iterdir()): the files are read and written in
\* the order of their names.
RECURSIVE ProcessFiles(_, _, _, _, _, _)
ProcessFiles(names, labels_dir, out_dir, old, name_to_new, acc) ==
    IF names = <<>> THEN acc
    ELSE ProcessFiles(Tail(names), labels_dir, out_dir, old, name_to_new,
             WriteFile(acc, labels_dir \o <<Head(names)>>, out_dir,
                       RemapText(acc.fs[labels_dir \o <<Head(names)>>].data, old, name_to_new)))

ZeroStats == [files |-> 0, lines |-> 0, changed |-> 0, unchanged |-> 0]

\* The backup step: copy labels_dir beside itself unless the copy exists.
BackupDir(labels_dir) == Parent(labels_dir) \o <<BaseName(labels_dir) \o BackupSuffix>>
Backup(f, labels_dir, create_backup) ==
    IF create_backup /\ ~Exists(f, BackupDir(labels_dir))
    THEN CopyTree(f, labels_dir, BackupDir(labels_dir))
    ELSE f

\* What remap_by_name leaves: the tree after the call, the exception if one was
\* raised, the returned stats, and per label file the out_lines handed to
\* write_text with, per line, whether it was counted as changed.
Raised(f, err) == [fs |-> f, err |-> err, stats |-> ZeroStats, emitted |-> <<>>]

\* The new class list is written as classes_mapped.txt and stats returned.
WriteClassesMapped(done, out_dir, new) ==
    [fs |-> WriteText(done.fs, out_dir \o <<ClassesMapped>>, Join(new, NL) \o NL),
     err |-> "",
     stats |-> done.stats,
     emitted |-> done.emitted]

\* From the class lists on: the maps, the loop over the label files, the reference file.
RemapWithClasses(f, labels_dir, out_dir, old, new) ==
    WriteClassesMapped(
        ProcessFiles(Sorted({BaseName(p) : p \in LabelFiles(f, labels_dir)}),
                     labels_dir, out_dir, old, NameToNew(new),
                     [fs |-> f, emitted |-> <<>>, stats |-> ZeroStats]),
        out_dir, new)

\* After the backup: the two class lists are read.
RemapBackedUp(f, labels_dir, out_dir, old_classes_path, new_classes_path) ==
    RemapWithClasses(f, labels_dir, out_dir,
                     ReadClasses(f[old_classes_path].data),
                     ReadClasses(f[new_classes_path].data))

\* After out_dir.mkdir: the backup.
RemapMade(made, f, labels_dir, out_dir, old_classes_path, new_classes_path, create_backup) ==
    IF ~made.ok THEN Raised(f, "FileExistsError")
    ELSE RemapBackedUp(Backup(made.fs, labels_dir, create_backup), labels_dir, out_dir,
                       old_classes_path, new_classes_path)

RemapByName(f, labels_dir, out_dir, old_classes_path, new_classes_path, create_backup) ==
    IF ~IsDir(f, labels_dir) THEN Raised(f, "FileNotFoundError")
    ELSE RemapMade(Mkdir(f, out_dir), f, labels_dir, out_dir,
                   old_classes_path, new_classes_path, create_backup)

(***************************************************************************)
(* The remapper's inputs.                                                  *)
(***************************************************************************)
Lab == <<"l", "a", "b">>
Sub == <<"s", "u", "b">>
Out == <<"o", "u", "t">>
Out2 == <<"o", "u", "t", "2">>
OldTxt == <<"o", "l", "d", ".", "t", "x", "t">>
NewTxt == <<"n", "e", "w", ".", "t", "x", "t">>
ATxt == <<"a", ".", "t", "x", "t">>
BTXT == <<"B", ".", "T", "X", "T">>
NotesMd == <<"n", ".", "m", "d">>

LabDir == <<Lab>>
OldPath == <<OldTxt>>
NewPath == <<NewTxt>>
\* Output folders a first run may be given: the label folder itself, a folder
\* inside it, a separate folder, and a path that is a file.
OutChoices == {LabDir, <<Lab, Sub>>, <<Out>>, OldPath}

ClassNames == {<<"a">>, <<"b">>}
ClassLists == UNION {[1..n -> ClassNames] : n \in 1..MaxClasses}

\* Label lines: class index, then four payload tokens.
Payload == <<"p", " ", "q", " ", "r", " ", "s">>
CoreLines == {<<"1", " ", " ", "p", " ", "q", "\t", "r", " ", "s">>,
              <<" ">>}
ExtraLines == {<<"0", " ">> \o Payload,
               <<"0", "1", " ">> \o Payload,
               <<"x", " ">> \o Payload,
               <<"1", " ", "p", " ", "q">>,
               <<"-", "1", " ">> \o Payload,
               <<"+", "1", " ">> \o Payload,
               <<"2", " ">> \o Payload,
               <<" ", "0", " ">> \o Payload \o <<" ">>,
               <<"1", "_", "0", " ">> \o Payload,
               <<>>}
LabelTexts ==
    {Join(ls, NL) \o NL : ls \in UNION {[1..n -> CoreLines] : n \in 0..MaxLines}}
        \cup {ln \o NL : ln \in ExtraLines}
        \cup {<<"1", " ">> \o Payload}

InitialTree(text, old, new) ==
    (<<>> :> DirNode)
        @@ (OldPath :> FileNode(Join(old, NL) \o NL))
        @@ (NewPath :> FileNode(Join(new, NL) \o NL))
        @@ (LabDir :> DirNode)
        @@ (<<Lab, ATxt>> :> FileNode(text))
        @@ (<<Lab, BTXT>> :> FileNode(<<"1", " ">> \o Payload \o NL))
        @@ (<<Lab, NotesMd>> :> FileNode(<<"x">>))

NoRun == [labels |-> <<>>, out |-> <<>>, oldp |-> <<>>, newp |-> <<>>, before |-> <<>>,
          err |-> "none", stats |-> ZeroStats, emitted |-> <<>>]

RunRecord(f, labels_dir, out_dir, oldp, newp, r) ==
    [labels |-> labels_dir, out |-> out_dir, oldp |-> oldp, newp |-> newp, before |-> f,
     err |-> r.err, stats |-> r.stats, emitted |-> r.emitted]

RemapIdle == fs = <<>> /\ phase = "off" /\ first = NoRun /\ last = NoRun

InitRemap ==
    /\ \E text \in LabelTexts, old \in ClassLists, new \in ClassLists :
           fs = InitialTree(text, old, new)
    /\ phase = "start"
    /\ first = NoRun
    /\ last = NoRun

\* The calls of remap_by_name: a first run from the label folder with the old
\* and the new class list ("forward"); then, on the first run's output, a run
\* with the new list given as old and as new ("again") or a run mapping the new
\* list back to the old one ("reverse").
Calls ==
    IF phase = "start"
    THEN {[kind |-> "forward", labels |-> LabDir, out |-> out_dir, oldp |-> OldPath,
           newp |-> NewPath, create_backup |-> b] :
          out_dir \in OutChoices, b \in BOOLEAN}
    ELSE IF phase = "forward" /\ first.err = ""
    THEN {[kind |-> k, labels |-> first.out, out |-> out_dir, oldp |-> NewPath,
           newp |-> (IF k = "again" THEN NewPath ELSE OldPath), create_backup |-> TRUE] :
          k \in {"again", "reverse"}, out_dir \in {<<Out2>>, first.out}}
    ELSE {}

Ran(call, r) ==
    /\ fs' = r.fs
    /\ last' = RunRecord(fs, call.labels, call.out, call.oldp, call.newp, r)
    /\ first' = IF call.kind = "forward" THEN last' ELSE first
    /\ phase' = call.kind

Remap ==
    /\ \E call \in Calls :
           Ran(call, RemapByName(fs, call.labels, call.out, call.oldp, call.newp,
                                 call.create_backup))
    /\ UNCHANGED <<renameVars, gui>>

(***************************************************************************)
(* src/rename.py                                                           *)
(***************************************************************************)
Jpg == <<".", "j", "p", "g">>
Jpeg == <<".", "j", "p", "e", "g">>
Png == <<".", "p", "n", "g">>
Gif == <<".", "g", "i", "f">>
Bmp == <<".", "b", "m", "p">>
Tiff == <<".", "t", "i", "f", "f">>
Webp == <<".", "w", "e", "b", "p">>
Svg == <<".", "s", "v", "g">>
Heic == <<".", "h", "e", "i", "c">>

\* image_extensions of rename_images
ImageExtensions(extensions) == {Jpg, Jpeg, Png, Gif, Bmp, Tiff, Webp, Svg}

\* argparse's default of --extensions
DefaultExtensions == {Jpg, Jpeg, Png, Gif, Bmp, Tiff, Webp}

\* os.listdir filtered by os.path.isfile, then by suffix, then sorted
ImageFiles(d, extensions) ==
    Sorted({name \in DOMAIN d :
                d[name].kind = "file" /\ Lower(Suffix(name)) \in ImageExtensions(extensions)})

\* len(str(start_number + total_files - 1))
Padding(start_number, total_files) == Len(Str(start_number + total_files - 1))

\* number = start_number + i
NumberFromOne(start_number, i) == start_number + i + 1
Number(start_number, i) == start_number + i

\* f"{prefix}_{new_number}{file_ext}"
NewFilename(prefix, start_number, i, padding, old_filename) ==
    prefix \o <<"_">> \o ZFill(Str(Number(start_number, i)), padding) \o Suffix(old_filename)

\* os.path.exists(new_path) and old_path != new_path
CollidesNever(d, old_filename, new_filename) == FALSE
Collides(d, old_filename, new_filename) ==
    new_filename \in DOMAIN d /\ old_filename # new_filename

\* os.rename(old_path, new_path) on a POSIX file system; ok = FALSE is OSError.
\* A file at the target is replaced, a directory there is an error.
OsRename(d, old_filename, new_filename) ==
    IF old_filename \notin DOMAIN d THEN [ok |-> FALSE, dir |-> d]
    ELSE IF old_filename = new_filename THEN [ok |-> TRUE, dir |-> d]
    ELSE IF new_filename \in DOMAIN d /\ d[new_filename].kind = "dir"
         THEN [ok |-> FALSE, dir |-> d]
    ELSE [ok |-> TRUE,
          dir |-> [n \in (DOMAIN d \ {old_filename}) \cup {new_filename} |->
                      IF n = new_filename THEN d[old_filename] ELSE d[n]]]

RnIdle == [pc |-> "idle", msg |-> "", start |-> 0, prefix |-> <<>>, dry_run |-> FALSE,
           extensions |-> {}, image_files |-> <<>>, i |-> 0, padding |-> 0,
           renamed_count |-> 0, pairs |-> {}, skipped |-> {}, before |-> <<>>]
\* What a completed run reported, with the directory before and after it.
Report(run, after) ==
    [done |-> TRUE, before |-> run.before, start |-> run.start, prefix |-> run.prefix,
     image_files |-> run.image_files, padding |-> run.padding, pairs |-> run.pairs,
     skipped |-> run.skipped, after |-> after]
NoRec == [done |-> FALSE, before |-> <<>>, start |-> 0, prefix |-> <<>>,
          image_files |-> <<>>, padding |-> 0, pairs |-> {}, skipped |-> {}, after |-> <<>>]

\* main() up to and including the listing of rename_images.  The parsed
\* extensions are kept in args only: rename_images is not given them.
Main(start, prefix, dry_run, extensions) ==
    /\ rn.pc = "idle"
    /\ IF start < 0
       THEN rn' = [RnIdle EXCEPT !.msg = "Error: Start number must be non-negative.",
                                 !.start = start]
       ELSE LET image_files == ImageFiles(dir, extensions)
                args == [RnIdle EXCEPT !.start = start, !.prefix = prefix,
                                       !.dry_run = dry_run, !.extensions = extensions,
                                       !.before = dir]
            IN IF image_files = <<>>
               THEN rn' = [args EXCEPT !.msg = "No image files found in the directory."]
               ELSE rn' = [args EXCEPT !.pc = "loop", !.msg = "Found",
                                       !.image_files = image_files,
                                       !.padding = Padding(start, Len(image_files))]
    \* The reports kept for comparison are those of runs on this directory
    \* with these arguments.
    /\ dryRec' = IF /\ ~dry_run
                    /\ dryRec.done
                    /\ dryRec.before = dir
                    /\ dryRec.start = start
                    /\ dryRec.prefix = prefix
                 THEN dryRec ELSE NoRec
    /\ realRec' = NoRec
    /\ UNCHANGED <<dir, origDir, remapVars, gui>>

\* One iteration of the loop over image_files.
LoopStep ==
    /\ rn.pc = "loop" /\ rn.i < Len(rn.image_files)
    /\ LET old_filename == rn.image_files[rn.i + 1]
           new_filename == NewFilename(rn.prefix, rn.start, rn.i, rn.padding, old_filename)
           next == [rn EXCEPT !.i = rn.i + 1]
       IN IF Collides(dir, old_filename, new_filename)
          THEN /\ rn' = [next EXCEPT !.msg = "Warning: already exists. Skipping",
                                     !.skipped = rn.skipped \cup {old_filename}]
               /\ dir' = dir
          ELSE IF rn.dry_run
          THEN /\ rn' = [next EXCEPT !.msg = "Would rename",
                                     !.pairs = rn.pairs \cup {<<old_filename, new_filename>>}]
               /\ dir' = dir
          ELSE LET r == OsRename(dir, old_filename, new_filename)
               IN /\ dir' = r.dir
                  /\ rn' = IF r.ok
                           THEN [next EXCEPT !.msg = "Renamed",
                                    !.pairs = rn.pairs \cup {<<old_filename, new_filename>>},
                                    !.renamed_count = rn.renamed_count + 1]
                           ELSE [next EXCEPT !.msg = "Error renaming"]
    /\ UNCHANGED <<origDir, dryRec, realRec, remapVars, gui>>

\* After the loop: the closing summary.
LoopEnd ==
    /\ rn.pc = "loop" /\ rn.i = Len(rn.image_files)
    /\ rn' = [RnIdle EXCEPT !.msg = IF rn.dry_run THEN "Dry run complete."
                                    ELSE "Renaming complete."]
    /\ dryRec' = IF rn.dry_run THEN Report(rn, dir) ELSE dryRec
    /\ realRec' = IF rn.dry_run THEN realRec ELSE Report(rn, dir)
    /\ UNCHANGED <<dir, origDir, remapVars, gui>>

(***************************************************************************)
(* The renamer's inputs.                                                   *)
(***************************************************************************)
Image == <<"i", "m", "a", "g", "e">>
Img == <<"i", "m", "g">>
File(name) == [name |-> name, kind |-> "file"]
Folder(name) == [name |-> name, kind |-> "dir"]
EntryPool ==
    {File(<<"a">> \o Jpg),
     File(<<"b", ".", "P", "N", "G">>),
     File(Image \o <<"_", "1">> \o Jpg),
     File(Image \o <<"_", "2">> \o Jpg),
     File(Image \o <<"_", "3">> \o Jpg),
     File(<<"c">> \o Heic),
     File(<<"n">> \o TxtSuffix),
     Folder(Image \o <<"_", "2">> \o Jpg),
     Folder(<<"d">> \o Jpg)}

StartChoices == {-1, 1, 2, 9}
PrefixChoices == {Image, Img}
ExtensionChoices == {DefaultExtensions, {Heic}}

Directories ==
    {[name \in {e.name : e \in es} |->
         [kind |-> (CHOOSE e \in es : e.name = name).kind, id |-> name]] :
     es \in {x \in SUBSET EntryPool :
                /\ Cardinality(x) <= MaxFiles
                /\ \A e1, e2 \in x : e1.name = e2.name => e1 = e2}}

RenameIdle ==
    dir = <<>> /\ origDir = <<>> /\ rn = RnIdle /\ dryRec = NoRec /\ realRec = NoRec

InitRename ==
    /\ dir \in Directories
    /\ origDir = dir
    /\ rn = RnIdle
    /\ dryRec = NoRec
    /\ realRec = NoRec

RunMain ==
    \E start \in StartChoices, prefix \in PrefixChoices, dry_run \in BOOLEAN,
       extensions \in ExtensionChoices :
        Main(start, prefix, dry_run, extensions)

(***************************************************************************)
(* MinimalApp of src/Remap.py: the four entry fields, the Run button, the  *)
(* status line, the log box and the worker threads.  A worker is first     *)
(* inside remap_by_name ("remap"), then in its finally clause ("finally"). *)
(***************************************************************************)
Fields == {"labels", "old", "new", "out"}

GuiInit == [filled |-> {}, run_btn |-> "normal", status |-> "Ready", log |-> 0,
            remap |-> 0, finally |-> 0]
GuiIdle == gui = GuiInit

Alive(g) == g.remap + g.finally

\* browse_labels, browse_old, browse_new, browse_out: a chosen path fills the entry
Browse(field) ==
    /\ field \notin gui.filled
    /\ gui' = [gui EXCEPT !.filled = gui.filled \cup {field}]
    /\ UNCHANGED <<remapVars, renameVars>>

\* The user empties an entry.
ClearEntry(field) ==
    /\ field \in gui.filled
    /\ gui' = [gui EXCEPT !.filled = gui.filled \ {field}]
    /\ UNCHANGED <<remapVars, renameVars>>

\* start_remap: a warning and no more when an entry is empty; otherwise the
\* button is disabled, the log is cleared and a worker thread is started.
StartRemap(g) ==
    IF g.filled # Fields THEN g
    ELSE [g EXCEPT !.run_btn = "disabled", !.status = "Running...", !.log = 0,
                   !.remap = g.remap + 1]

\* The Run button's command; Tk delivers no click to a disabled button.
ClickRun ==
    /\ gui.run_btn = "normal"
    /\ Alive(gui) < MaxWorkers
    /\ gui' = StartRemap(gui)
    /\ UNCHANGED <<remapVars, renameVars>>

\* root.bind('<Return>', ...): Enter calls start_remap whatever the button's state.
PressEnter ==
    /\ Alive(gui) < MaxWorkers
    /\ gui' = StartRemap(gui)
    /\ UNCHANGED <<remapVars, renameVars>>

\* _worker: remap_by_name returns and "Done" is logged, or it raises and the
\* error is logged.
WorkerRemap ==
    /\ gui.remap > 0
    /\ \E ok \in BOOLEAN :
           gui' = [gui EXCEPT !.remap = gui.remap - 1, !.finally = gui.finally + 1,
                              !.log = IF ok THEN gui.log + 2 ELSE gui.log + 1,
                              !.status = IF ok THEN "Done" ELSE gui.status]
    /\ UNCHANGED <<remapVars, renameVars>>

\* _worker's finally clause: the button is enabled again and the thread ends.
WorkerFinally ==
    /\ gui.finally > 0
    /\ gui' = [gui EXCEPT !.finally = gui.finally - 1, !.run_btn = "normal"]
    /\ UNCHANGED <<remapVars, renameVars>>

(***************************************************************************)
(* Specifications: one per tool, the other tools idle.                     *)
(***************************************************************************)
InitRemapSpec == InitRemap /\ RenameIdle /\ GuiIdle
NextRemap == Remap
SpecRemap == InitRemapSpec /\ [][NextRemap]_vars

InitRenameSpec == InitRename /\ RemapIdle /\ GuiIdle
NextRename == RunMain \/ LoopStep \/ LoopEnd
SpecRename == InitRenameSpec /\ [][NextRename]_vars

InitGuiSpec == GuiIdle /\ RemapIdle /\ RenameIdle
NextGui ==
    \/ \E field \in Fields : Browse(field)
    \/ \E field \in Fields : ClearEntry(field)
    \/ ClickRun
    \/ PressEnter
    \/ WorkerRemap
    \/ WorkerFinally
SpecGui == InitGuiSpec /\ [][NextGui]_vars

Init == InitRemapSpec \/ InitRenameSpec \/ InitGuiSpec
Next == NextRemap \/ NextRename \/ NextGui
Spec == Init /\ [][Next]_vars

(***************************************************************************)
(* Properties of the remapper.  They are stated on the record of a run:    *)
(* the tree before it, the tree after it, and the lines it emitted.        *)
(***************************************************************************)
Range(seq) == {seq[i] : i \in 1..Len(seq)}
FirstIndexOf(list, name) == (CHOOSE i \in 1..Len(list) :
                                 list[i] = name /\ \A j \in 1..(i - 1) : list[j] # name) - 1
LastIndexOf(list, name) == (CHOOSE i \in 1..Len(list) :
                                list[i] = name /\ \A j \in (i + 1)..Len(list) : list[j] # name) - 1

Completed(r) == r.err = ""
OldOf(r) == ReadClasses(r.before[r.oldp].data)
NewOf(r) == ReadClasses(r.before[r.newp].data)
\* The non-blank lines a run read from label file n.
InputLines(r, n) ==
    SelectSeq(SplitLines(r.before[r.labels \o <<n>>].data), LAMBDA ln : ~IsBlank(ln))
\* The lines of label file n in the output folder as the run left it.
OutputFileLines(r, n) == SplitLines(fs[r.out \o <<n>>].data)
FirstToken(ln) == Split(ln)[1]
IndexOf(ln) == ParseInt(FirstToken(ln)).val

\* The four conditions: five tokens, an integer first, a position of old, a name of new.
Conforms(ln, old, new) ==
    /\ Len(Split(ln)) >= 5
    /\ ParseInt(FirstToken(ln)).ok
    /\ IndexOf(ln) \in 0..(Len(old) - 1)
    /\ old[IndexOf(ln) + 1] \in Range(new)
ResolvedName(ln, old) == old[IndexOf(ln) + 1]

\* C1 as claimed: a conforming line is emitted with the FIRST position of its
\* name in the new list as first token and tokens 2..n as they were.
C1_FirstPosition ==
    Completed(last) =>
        \A n \in DOMAIN last.emitted :
            LET ins == InputLines(last, n)
                outs == last.emitted[n].out_lines
            IN /\ Len(outs) = Len(ins)
               /\ \A k \in 1..Len(ins) :
                      Conforms(ins[k], OldOf(last), NewOf(last)) =>
                          /\ FirstToken(outs[k]) =
                                 Str(FirstIndexOf(NewOf(last), ResolvedName(ins[k], OldOf(last))))
                          /\ Tail(Split(outs[k])) = Tail(Split(ins[k]))

\* C1 amended: a conforming line is emitted with the LAST position of its name
\* in the new list as first token and tokens 2..n as they were.
C1_LastPosition ==
    Completed(last) =>
        \A n \in DOMAIN last.emitted :
            LET ins == InputLines(last, n)
                outs == last.emitted[n].out_lines
            IN /\ Len(outs) = Len(ins)
               /\ \A k \in 1..Len(ins) :
                      Conforms(ins[k], OldOf(last), NewOf(last)) =>
                          /\ FirstToken(outs[k]) =
                                 Str(LastIndexOf(NewOf(last), ResolvedName(ins[k], OldOf(last))))
                          /\ Tail(Split(outs[k])) = Tail(Split(ins[k]))

\* C1 witness: a run rewrote a conforming line whose name occurs twice in the new list.
C1_Witness ==
    /\ Completed(last)
    /\ \E n \in DOMAIN last.emitted :
           \E k \in 1..Len(InputLines(last, n)) :
               LET ln == InputLines(last, n)[k]
               IN /\ Conforms(ln, OldOf(last), NewOf(last))
                  /\ FirstIndexOf(NewOf(last), ResolvedName(ln, OldOf(last)))
                         # LastIndexOf(NewOf(last), ResolvedName(ln, OldOf(last)))
                  /\ last.emitted[n].flags[k]

\* C2 as claimed: every non-blank line failing one of the four conditions is in
\* the output file as it was read, in its place among the non-blank lines, and
\* is counted as unchanged.
C2_KeptLineInOutputFile ==
    Completed(last) =>
        \A n \in DOMAIN last.emitted :
            LET ins == InputLines(last, n)
                outs == OutputFileLines(last, n)
            IN /\ Len(outs) = Len(ins)
               /\ \A k \in 1..Len(ins) :
                      ~Conforms(ins[k], OldOf(last), NewOf(last)) =>
                          outs[k] = ins[k] /\ ~last.emitted[n].flags[k]

\* C4 as claimed: after a run, whatever the output folder, every file of the
\* label folder has the content it had before.
C4_LabelFilesUntouched ==
    last.err # "none" =>
        \A p \in Children(last.before, last.labels) :
            IsFile(last.before, p) => p \in DOMAIN fs /\ fs[p] = last.before[p]

\* C4 amended: after a run whose output folder is not the label folder itself
\* (a folder inside it included), every file directly in the label folder has
\* the content it had before.
C4_LabelFilesUntouchedElsewhere ==
    (last.err # "none" /\ last.out # last.labels) =>
        \A p \in Children(last.before, last.labels) :
            IsFile(last.before, p) => p \in DOMAIN fs /\ fs[p] = last.before[p]

\* C4 witness: a run into a folder inside the label folder rewrote a line.
C4_Witness ==
    /\ Completed(last)
    /\ last.labels = LabDir /\ last.out = <<Lab, Sub>>
    /\ last.stats.changed > 0

C8_RoundTrip ==
    (phase = "reverse" /\ Completed(last) /\ Range(OldOf(first)) = Range(NewOf(first))) =>
        \A n \in DOMAIN first.emitted :
            \A k \in 1..Len(InputLines(first, n)) :
                first.emitted[n].flags[k] =>
                    /\ ParseInt(FirstToken(last.emitted[n].out_lines[k])).ok
                    /\ IndexOf(last.emitted[n].out_lines[k]) = IndexOf(InputLines(first, n)[k])

\* C8 amended: with the same set of names in both lists, the run back from new
\* to old gives every line the forward run changed its original index, when
\* that index is the last position of its name in the old list (as it is when
\* the old list has no duplicate).
C8_RoundTripLastPosition ==
    (phase = "reverse" /\ Completed(last) /\ Range(OldOf(first)) = Range(NewOf(first))) =>
        \A n \in DOMAIN first.emitted :
            \A k \in 1..Len(InputLines(first, n)) :
                (/\ first.emitted[n].flags[k]
                 /\ Conforms(InputLines(first, n)[k], OldOf(first), NewOf(first))
                 /\ IndexOf(InputLines(first, n)[k])
                        = LastIndexOf(OldOf(first), ResolvedName(InputLines(first, n)[k], OldOf(first))))
                    =>
                    /\ ParseInt(FirstToken(last.emitted[n].out_lines[k])).ok
                    /\ IndexOf(last.emitted[n].out_lines[k]) = IndexOf(InputLines(first, n)[k])

\* C8 witness: the run back restored an index the forward run had replaced by another.
C8_Witness ==
    /\ phase = "reverse" /\ Completed(last)
    /\ Range(OldOf(first)) = Range(NewOf(first))
    /\ \E n \in DOMAIN first.emitted :
           \E k \in 1..Len(InputLines(first, n)) :
               /\ first.emitted[n].flags[k]
               /\ IndexOf(first.emitted[n].out_lines[k]) # IndexOf(InputLines(first, n)[k])
               /\ IndexOf(last.emitted[n].out_lines[k]) = IndexOf(InputLines(first, n)[k])

(***************************************************************************)
(* Properties of the renamer.                                              *)
(***************************************************************************)
\* The recognized image files of a directory, by the built-in extensions.
RecognizedImages(d) ==
    {name \in DOMAIN d :
         d[name].kind = "file"
             /\ Lower(Suffix(name)) \in {Jpg, Jpeg, Png, Gif, Bmp, Tiff, Webp, Svg}}

\* <prefix>_<start + i - 1, zero-padded to the width of start + N - 1><extension>
\* for the i-th of the N files of a completed run.
Target(rec, i) ==
    rec.prefix \o <<"_">>
        \o ZFill(Str(rec.start + i - 1), Len(Str(rec.start + Len(rec.image_files) - 1)))
        \o Suffix(rec.image_files[i])

\* What C5 says of a completed real run: its files are the recognized images
\* in lexicographic order, and afterwards the i-th of them bears the i-th
\* target name and there are as many image files as before.
RenamedInOrder(rec) ==
    /\ Range(rec.image_files) = RecognizedImages(rec.before)
    /\ \A i, j \in 1..Len(rec.image_files) :
           i < j => LexLess(rec.image_files[i], rec.image_files[j])
    /\ Cardinality(RecognizedImages(rec.after)) = Len(rec.image_files)
    /\ \A i \in 1..Len(rec.image_files) :
           /\ Target(rec, i) \in DOMAIN rec.after
           /\ rec.after[Target(rec, i)] = rec.before[rec.image_files[i]]

\* No entry of the directory already bears a target name, unless it is the
\* very file the name is meant for.
NoTargetTaken(rec) ==
    \A i \in 1..Len(rec.image_files) :
        Target(rec, i) \in DOMAIN rec.before => Target(rec, i) = rec.image_files[i]

C6_DryRunSameMapping ==
    (/\ dryRec.done /\ realRec.done
     /\ dryRec.before = realRec.before
     /\ dryRec.start = realRec.start /\ dryRec.prefix = realRec.prefix)
        => /\ dryRec.after = dryRec.before
           /\ dryRec.pairs = realRec.pairs
           /\ dryRec.skipped = realRec.skipped

\* C9 as claimed: a file whose extension, lower-cased, was given through
\* --extensions is among the files the run treats as images.
C9_ExtensionsRecognized ==
    (rn.pc = "loop" \/ rn.msg = "No image files found in the directory.") =>
        \A name \in DOMAIN rn.before :
            (rn.before[name].kind = "file" /\ Lower(Suffix(name)) \in rn.extensions)
                => name \in Range(rn.image_files)

(***************************************************************************)
(* Property of the remap GUI.                                              *)
(***************************************************************************)
\* C10 as claimed: at most one remap worker thread is alive at any time.
C10_OneWorker == Alive(gui) <= 1

====
